---- MODULE Spec2Model ----
(***************************************************************************)
(* A model of DockerDir/solar_bridge.py: the bridge that polls a Hoymiles  *)
(* DTU, reconciles its counters against last_valid_total_wh and publishes  *)
(* a retained state message to an MQTT broker.                             *)
(*                                                                         *)
(* Two threads of the process are modelled: the main thread (start-up,     *)
(* then the poll loop) and the network thread that paho's loop_start()     *)
(* creates and on which on_message runs.  The broker (its retained message *)
(* and the messages already sent to this client) is the environment.       *)
(* A step of a thread holds at most one access to the shared global        *)
(* last_valid_total_wh; purely local computation is folded into the step   *)
(* that precedes or follows it.                                            *)
(***************************************************************************)
EXTENDS Naturals, Sequences, FiniteSets, TLC

\* ------------------------------------------------------------------ bounds

\* Largest total (Wh) the DTU reports and a message on the state topic holds.
MaxWh == 2
\* Largest number of inverters in one plant snapshot.
MaxInv == 2
\* Messages sent to this client that on_message has not yet been given.
MaxInbox == 1
\* The last total the previous run of the process published, in the
\* specification of a restart.
RestartTotal == 1

VARIABLES
    ENABLE_MQTT,          \* line 27
    MQTT_BROKER,          \* line 29: the variable is set and not empty
    MQTT_PORT,            \* line 30: the variable is set and int() accepts it
    MQTT_USER,            \* line 31: set and not empty
    MQTT_PASS,            \* line 32: set and not empty
    TOPIC_BASE,           \* line 33: set and not empty
    mainpc,               \* position of the main thread
    exit_code,            \* "none" while running, else the status passed to exit
    client,               \* "none" | "created" | "looping" | "loop_stopped" | "disconnected"
    last_valid_total_wh,  \* line 40
    retained,             \* broker: the retained message of TOPIC_STATE
    subscribed,           \* broker: this client is subscribed to TOPIC_STATE
    inbox,                \* messages sent to this client, not yet given to on_message
    cbpc,                 \* position of on_message on the network thread
    saved_total,          \* on_message's local saved_total
    dtu_reported_total,   \* line 157
    current_total_wh,     \* lines 162/165/171
    source,               \* lines 163/166
    active_alarms,        \* line 133
    final_power,          \* lines 180/182
    alarm_flag,           \* plant_data.alarm_flag, lines 188 and 194
    glitch,               \* the cycle printed "Glitch detected!" (line 170)
    error,                \* the exception the cycle caught (line 202), "none" if none
    published             \* the payload published in the current cycle, if any

vars == <<ENABLE_MQTT, MQTT_BROKER, MQTT_PORT, MQTT_USER, MQTT_PASS, TOPIC_BASE,
          mainpc, exit_code, client, last_valid_total_wh,
          retained, subscribed, inbox, cbpc, saved_total,
          dtu_reported_total, current_total_wh, source,
          active_alarms, final_power, alarm_flag, glitch, error, published>>

\* ------------------------------------------------------------ data domains

\* A message on the state topic, as far as on_message reads it: text that is
\* not JSON ("bad"), a JSON object without the key ("nokey"), or one with it.
NoMsg == [kind |-> "none", total_production_wh |-> 0]

Messages ==
    {[kind |-> "bad", total_production_wh |-> 0],
     [kind |-> "nokey", total_production_wh |-> 0]}
    \cup {[kind |-> "val", total_production_wh |-> v] : v \in 0..MaxWh}

Serials == <<"A", "B", "C", "D">>

\* The inverter at position i of the DTU's enumeration.
InverterAt(i) ==
    {[serial_number |-> Serials[i], port_number |-> i,
      total_production |-> t, pv_power |-> p,
      has_alarm_code |-> a[1], alarm_code |-> a[2],
      operating_status |-> i + 2] :
        t \in {0, 1}, p \in {0, 1},
        a \in {<<FALSE, 0>>, <<TRUE, 0>>, <<TRUE, 1>>}}

InverterLists ==
    UNION {{f \in [1..n -> UNION {InverterAt(i) : i \in 1..n}] :
               \A i \in 1..n : f[i] \in InverterAt(i)} : n \in 0..MaxInv}

\* Where a reading that cannot be used makes the cycle raise before the
\* memory check: the transport (line 130), an inverter's alarm_code (line
\* 136), a total_production (lines 157-158).
EarlyFaults == {"transport", "alarm_code", "total_production"}

\* alarm_flag is only copied into the payload (line 188): one value stands
\* for it.
PlantSnapshots ==
    [total_production : 0..MaxWh, pv_power : {0, 1}, alarm_flag : {TRUE},
     inverters : InverterLists]

NoPayload == [sent |-> FALSE, current_power_w |-> 0, total_production_wh |-> 0,
              alarm_flag |-> FALSE, active_alarms |-> <<>>, debug_source |-> "none"]

\* ------------------------------------------------------------ pure helpers

RECURSIVE SumTotal(_)
SumTotal(invs) ==
    IF invs = <<>> THEN 0
    ELSE Head(invs).total_production + SumTotal(Tail(invs))

RECURSIVE SumPower(_)
SumPower(invs) ==
    IF invs = <<>> THEN 0
    ELSE Head(invs).pv_power + SumPower(Tail(invs))

\* Line 135: getattr(inverter, 'alarm_code', 0).
a_code(inverter) ==
    IF inverter.has_alarm_code THEN inverter.alarm_code ELSE 0

\* A deviating alarm logic, to test the sensitivity of C13: a record for
\* every inverter.
ActiveAlarmsOfAll(invs) ==
    [k \in 1..Len(invs) |->
        [serial_number |-> invs[k].serial_number, port |-> invs[k].port_number,
         alarm_code |-> a_code(invs[k]),
         operating_status |-> invs[k].operating_status]]

\* Lines 133-143.
RECURSIVE ActiveAlarms(_)
ActiveAlarms(invs) ==
    IF invs = <<>> THEN <<>>
    ELSE LET inv == Head(invs)
             rest == ActiveAlarms(Tail(invs))
         IN IF a_code(inv) > 0
            THEN <<[serial_number |-> inv.serial_number, port |-> inv.port_number,
                    alarm_code |-> a_code(inv),
                    operating_status |-> inv.operating_status]>> \o rest
            ELSE rest

\* A deviating selection, to test the sensitivity of C3: a reported total of
\* 0 is taken as well, the sum is never used.
SelectTotalAlwaysDtu(dtu, calc) ==
    IF dtu >= 0
    THEN [current_total_wh |-> dtu, source |-> "DTU"]
    ELSE [current_total_wh |-> calc, source |-> "CALC"]

\* Lines 161-166: the candidate total and its source.
SelectTotal(dtu, calc) ==
    IF dtu > 0
    THEN [current_total_wh |-> dtu, source |-> "DTU"]
    ELSE [current_total_wh |-> calc, source |-> "CALC"]

\* A deviating comparison, to test the sensitivity of C2: an equal candidate
\* counts as a glitch.
IsGlitchOrEqual(cur, last) == cur <= last

\* Line 169: the candidate is a glitch.
IsGlitch(cur, last) == cur < last

\* A deviating power check, to test the sensitivity of C9: the sum of the
\* inverters is never used.
FinalPowerAlwaysDtu(pd) == pd.pv_power

\* Lines 176-182.
FinalPower(pd) ==
    LET dtu_power == pd.pv_power
        calc_power == SumPower(pd.inverters)
    IN IF dtu_power = 0 /\ calc_power > 0 THEN calc_power ELSE dtu_power

\* A deviating payload, to test the sensitivity of C15: debug_source does
\* not follow the selection of lines 161-166.
PayloadSourceDtu(power, cur, flag, alarms, src) ==
    [sent |-> TRUE, current_power_w |-> power, total_production_wh |-> cur,
     alarm_flag |-> flag, active_alarms |-> alarms, debug_source |-> "DTU"]

\* Lines 185-191.
Payload(power, cur, flag, alarms, src) ==
    [sent |-> TRUE, current_power_w |-> power, total_production_wh |-> cur,
     alarm_flag |-> flag, active_alarms |-> alarms, debug_source |-> src]

\* What lines 133-166, 176-182 and 188 derive from one reading, the memory
\* check apart: each depends on the reading alone.
CycleLocals(pd) ==
    [active_alarms |-> ActiveAlarms(pd.inverters),
     dtu_reported_total |-> pd.total_production,
     current_total_wh |->
         SelectTotal(pd.total_production, SumTotal(pd.inverters)).current_total_wh,
     source |-> SelectTotal(pd.total_production, SumTotal(pd.inverters)).source,
     final_power |-> FinalPower(pd),
     alarm_flag |-> pd.alarm_flag]

Readings == {CycleLocals(pd) : pd \in PlantSnapshots}

\* json.dumps(payload) as on_message will read it back.
JsonDumps(p) == [kind |-> "val", total_production_wh |-> p.total_production_wh]

\* Lines 76-77: json.loads raises on text that is not JSON.
Parses(m) == m.kind # "bad"

\* Line 77: int(payload.get('total_production_wh', 0)).
ParsedTotal(m) == IF m.kind = "val" THEN m.total_production_wh ELSE 0

\* Deviating comparisons, to test the sensitivity of C4 and C5: an equal
\* total is adopted; any different total is adopted.
RestoreAcceptsEqual(saved, last) == saved >= last

RestoreAcceptsDifferent(saved, last) == saved # last

\* Line 79.
RestoreAccepts(saved, last) == saved > last

\* -------------------------------------------------------------- start-up

Init ==
    /\ ENABLE_MQTT \in BOOLEAN
    /\ MQTT_BROKER \in BOOLEAN
    /\ MQTT_PORT \in BOOLEAN
    /\ MQTT_USER \in BOOLEAN
    /\ MQTT_PASS \in BOOLEAN
    /\ TOPIC_BASE \in BOOLEAN
    /\ mainpc = "config"
    /\ exit_code = "none"
    /\ client = "none"
    /\ last_valid_total_wh = 0
    /\ retained \in {NoMsg} \cup Messages
    /\ subscribed = FALSE
    /\ inbox = <<>>
    /\ cbpc = "idle"
    /\ saved_total = 0
    /\ dtu_reported_total = 0
    /\ current_total_wh = 0
    /\ source = "none"
    /\ active_alarms = <<>>
    /\ final_power = 0
    /\ alarm_flag = FALSE
    /\ glitch = FALSE
    /\ error = "none"
    /\ published = NoPayload

brokerVars == <<retained, subscribed, inbox>>
cbVars == <<cbpc, saved_total>>
cycleVars == <<dtu_reported_total, current_total_wh, source,
               active_alarms, final_power, alarm_flag>>
logVars == <<glitch, error, published>>
configVars == <<ENABLE_MQTT, MQTT_BROKER, MQTT_PORT, MQTT_USER, MQTT_PASS, TOPIC_BASE>>

\* A deviating check, to test the sensitivity of C12: the base topic is not
\* looked at.
config_okWithoutTopic == MQTT_BROKER /\ MQTT_USER /\ MQTT_PASS

\* Line 90: all([MQTT_BROKER, MQTT_USER, MQTT_PASS, TOPIC_BASE]).
config_ok == MQTT_BROKER /\ MQTT_USER /\ MQTT_PASS /\ TOPIC_BASE

\* Line 30: int(os.getenv('MQTT_PORT')) raises when the variable is not set
\* or is no number, whatever ENABLE_MQTT says; nothing catches it and the
\* interpreter exits with status 1.
PortMissing ==
    /\ mainpc = "config"
    /\ ~MQTT_PORT
    /\ mainpc' = "exited"
    /\ exit_code' = "1"
    /\ UNCHANGED <<configVars, client, last_valid_total_wh, brokerVars, cbVars,
                   cycleVars, logVars>>

\* The positions of the poll loop (lines 128-207).
LoopPcs == {"poll", "glitch", "accept", "sleep"}

\* Lines 89-94 and 122-123, MQTT disabled: no client, straight to the loop.
DryRunStart ==
    /\ mainpc = "config"
    /\ MQTT_PORT
    /\ ~ENABLE_MQTT
    /\ mainpc' = "poll"
    /\ UNCHANGED <<configVars, exit_code, client, last_valid_total_wh, brokerVars,
                   cbVars, cycleVars, logVars>>

\* Lines 90-92: MQTT enabled and a setting missing.
ConfigMissing ==
    /\ mainpc = "config"
    /\ MQTT_PORT
    /\ ENABLE_MQTT
    /\ ~config_ok
    /\ mainpc' = "exited"
    /\ exit_code' = "1"
    /\ UNCHANGED <<configVars, client, last_valid_total_wh, brokerVars, cbVars,
                   cycleVars, logVars>>

\* Lines 94-99: the client is created and the callbacks attached.
CreateClient ==
    /\ mainpc = "config"
    /\ MQTT_PORT
    /\ ENABLE_MQTT
    /\ config_ok
    /\ client' = "created"
    /\ mainpc' = "connect"
    /\ UNCHANGED <<configVars, exit_code, last_valid_total_wh, brokerVars, cbVars,
                   cycleVars, logVars>>

\* Lines 103-104: connect and loop_start.
Connect ==
    /\ mainpc = "connect"
    /\ client' = "looping"
    /\ mainpc' = "subscribe"
    /\ UNCHANGED <<configVars, exit_code, last_valid_total_wh, brokerVars, cbVars,
                   cycleVars, logVars>>

\* Lines 103 and 119-121: connect raises.
ConnectFails ==
    /\ mainpc = "connect"
    /\ mainpc' = "exited"
    /\ exit_code' = "1"
    /\ UNCHANGED <<configVars, client, last_valid_total_wh, brokerVars, cbVars,
                   cycleVars, logVars>>

\* Line 109: the broker registers the subscription and sends the retained
\* message of the topic, if it holds one.
Subscribe ==
    /\ mainpc = "subscribe"
    /\ subscribed' = TRUE
    /\ inbox' = IF retained = NoMsg THEN inbox ELSE Append(inbox, retained)
    /\ mainpc' = "wait"
    /\ UNCHANGED <<configVars, exit_code, client, last_valid_total_wh, retained,
                   cbVars, cycleVars, logVars>>

\* Line 112: time.sleep(2) returns, whatever the network thread has done.
RecoveryWait ==
    /\ mainpc = "wait"
    /\ mainpc' = "unsubscribe"
    /\ UNCHANGED <<configVars, exit_code, client, last_valid_total_wh, brokerVars,
                   cbVars, cycleVars, logVars>>

\* Lines 115-116: nothing more is sent to this client; what was sent before
\* stays with the client until on_message has taken it.
Unsubscribe ==
    /\ mainpc = "unsubscribe"
    /\ subscribed' = FALSE
    /\ mainpc' = "poll"
    /\ UNCHANGED <<configVars, exit_code, client, last_valid_total_wh, retained,
                   inbox, cbVars, cycleVars, logVars>>

\* ------------------------------------------------- on_message (lines 69-86)

CallbackRuns ==
    /\ client = "looping"
    /\ mainpc # "exited"
    /\ cbpc = "idle"
    /\ inbox # <<>>

\* Lines 76 and 85-86: the payload does not parse; the exception is caught.
OnMessageParseError ==
    /\ CallbackRuns
    /\ ~Parses(Head(inbox))
    /\ inbox' = Tail(inbox)
    /\ UNCHANGED <<configVars, mainpc, exit_code, client, last_valid_total_wh,
                   retained, subscribed, cbVars, cycleVars, logVars>>

\* Lines 76-79, 82-83: the saved total is not greater than the one in memory.
OnMessageIgnore ==
    /\ CallbackRuns
    /\ Parses(Head(inbox))
    /\ ~RestoreAccepts(ParsedTotal(Head(inbox)), last_valid_total_wh)
    /\ inbox' = Tail(inbox)
    /\ UNCHANGED <<configVars, mainpc, exit_code, client, last_valid_total_wh,
                   retained, subscribed, cbVars, cycleVars, logVars>>

\* Lines 76-80: the comparison of line 79 succeeds; line 81 has yet to run.
OnMessageCompare ==
    /\ CallbackRuns
    /\ Parses(Head(inbox))
    /\ RestoreAccepts(ParsedTotal(Head(inbox)), last_valid_total_wh)
    /\ inbox' = Tail(inbox)
    /\ saved_total' = ParsedTotal(Head(inbox))
    /\ cbpc' = "write"
    /\ UNCHANGED <<configVars, mainpc, exit_code, client, last_valid_total_wh,
                   retained, subscribed, cycleVars, logVars>>

\* Line 81.
OnMessageRestore ==
    /\ client = "looping"
    /\ mainpc # "exited"
    /\ cbpc = "write"
    /\ last_valid_total_wh' = saved_total
    /\ cbpc' = "idle"
    /\ saved_total' = 0
    /\ UNCHANGED <<configVars, mainpc, exit_code, client, brokerVars, cycleVars,
                   logVars>>

\* Another client publishes a retained message on the state topic while this
\* one is subscribed: the broker keeps it and sends it on.
ExternalPublish ==
    /\ subscribed
    /\ mainpc # "exited"
    /\ Len(inbox) < MaxInbox
    /\ \E m \in Messages :
          /\ retained' = m
          /\ inbox' = Append(inbox, m)
    /\ UNCHANGED <<configVars, mainpc, exit_code, client, last_valid_total_wh,
                   subscribed, cbVars, cycleVars, logVars>>

\* ------------------------------------------------ poll loop (lines 128-207)

\* The cycle's locals are dead once the cycle has ended.
CycleOver ==
    /\ dtu_reported_total' = 0
    /\ current_total_wh' = 0
    /\ source' = "none"
    /\ active_alarms' = <<>>
    /\ final_power' = 0
    /\ alarm_flag' = FALSE

\* A deviating handler, to test the sensitivity of C10: the exception is not
\* caught and ends the process.
ExceptionEscapes(e) ==
    /\ mainpc' = "exited"
    /\ exit_code' = "1"
    /\ error' = e
    /\ CycleOver

\* Lines 202-203: an exception raised inside the try block is caught and the
\* loop goes on to the sleep of lines 206-207.
ExceptionCaught(e) ==
    /\ mainpc' = "sleep"
    /\ exit_code' = exit_code
    /\ error' = e
    /\ CycleOver

\* Lines 130-158 raise: the transport fails, or an alarm_code or a
\* total_production of the reading cannot be used.
PollFails ==
    /\ mainpc = "poll"
    /\ \E f \in EarlyFaults : ExceptionCaught("read")
    /\ UNCHANGED <<configVars, client, last_valid_total_wh, brokerVars, cbVars,
                   glitch, published>>

\* Lines 130-169: the reading, the alarms, the candidate total and the
\* comparison of line 169 with last_valid_total_wh.  What lines 176-182 and
\* 188 compute from the same reading is computed here as well: it depends on
\* the reading alone.
Poll ==
    /\ mainpc = "poll"
    /\ \E r \in Readings :
          /\ active_alarms' = r.active_alarms
          /\ dtu_reported_total' = r.dtu_reported_total
          /\ current_total_wh' = r.current_total_wh
          /\ source' = r.source
          /\ final_power' = r.final_power
          /\ alarm_flag' = r.alarm_flag
          /\ mainpc' = IF IsGlitch(r.current_total_wh, last_valid_total_wh)
                       THEN "glitch" ELSE "accept"
    /\ UNCHANGED <<configVars, exit_code, client, last_valid_total_wh, brokerVars,
                   cbVars, logVars>>

\* Lines 185-198: the payload is built and published, retained.
PublishSent(total) ==
    /\ ENABLE_MQTT /\ client # "none"
    /\ published' = Payload(final_power, total, alarm_flag, active_alarms, source)
    /\ retained' = JsonDumps(published')
    /\ mainpc' = "sleep"
    /\ CycleOver
    /\ UNCHANGED <<exit_code, error>>

\* Line 197 raises.
PublishFails ==
    /\ ENABLE_MQTT /\ client # "none"
    /\ ExceptionCaught("publish")
    /\ UNCHANGED <<retained, published>>

\* Lines 176-177 or 188 raise: the reading's pv_power or alarm_flag cannot be
\* used.
LateFieldFails ==
    /\ ExceptionCaught("read")
    /\ UNCHANGED <<retained, published>>

\* Lines 199-200: the dry run only prints.
PublishSkipped ==
    /\ ~(ENABLE_MQTT /\ client # "none")
    /\ mainpc' = "sleep"
    /\ CycleOver
    /\ UNCHANGED <<exit_code, error, retained, published>>

\* Lines 176-203, the rest of the cycle after the memory check: none of it
\* reads or writes last_valid_total_wh.
RestOfCycle(total) ==
    \/ PublishSent(total)
    \/ PublishFails
    \/ LateFieldFails
    \/ PublishSkipped

\* A deviating glitch branch, to test the sensitivity of C8: line 171 is
\* left out and the candidate is published.
MemoryGlitchKeepsCandidate ==
    /\ mainpc = "glitch"
    /\ glitch' = TRUE
    /\ RestOfCycle(current_total_wh)
    /\ UNCHANGED <<configVars, client, last_valid_total_wh, subscribed, inbox, cbVars>>

\* Lines 170-171, then the rest of the cycle.
MemoryGlitch ==
    /\ mainpc = "glitch"
    /\ glitch' = TRUE
    /\ RestOfCycle(last_valid_total_wh)
    /\ UNCHANGED <<configVars, client, last_valid_total_wh, subscribed, inbox, cbVars>>

\* A deviating accept branch, to test the sensitivity of C16: the stored
\* total is put back when the publish of the cycle raises.
MemoryAcceptRolledBack ==
    /\ mainpc = "accept"
    /\ glitch' = FALSE
    /\ RestOfCycle(current_total_wh)
    /\ last_valid_total_wh' = IF error' = "publish" THEN last_valid_total_wh
                              ELSE current_total_wh
    /\ UNCHANGED <<configVars, client, subscribed, inbox, cbVars>>

\* Line 173, then the rest of the cycle.
MemoryAccept ==
    /\ mainpc = "accept"
    /\ last_valid_total_wh' = current_total_wh
    /\ glitch' = FALSE
    /\ RestOfCycle(current_total_wh)
    /\ UNCHANGED <<configVars, client, subscribed, inbox, cbVars>>

\* Lines 206-207: the sleep ends and the next cycle begins.
Sleep ==
    /\ mainpc = "sleep"
    /\ mainpc' = "poll"
    /\ published' = NoPayload
    /\ glitch' = FALSE
    /\ error' = "none"
    /\ UNCHANGED <<configVars, exit_code, client, last_valid_total_wh, brokerVars,
                   cbVars, cycleVars>>

\* The process is going down: its threads' locals, what was sent to it and
\* the record of the cycle's outcome are dropped.
ProcessState ==
    /\ CycleOver
    /\ cbpc' = "idle"
    /\ saved_total' = 0
    /\ inbox' = <<>>
    /\ subscribed' = FALSE
    /\ published' = NoPayload
    /\ glitch' = FALSE
    /\ error' = "none"

\* A deviating handler, to test the sensitivity of C11: what the handler
\* raises inside the try block of the loop is caught at line 202.
SignalHandlerCaught ==
    /\ mainpc \notin {"exited", "stopping"}
    /\ client' = IF client # "none" THEN "loop_stopped" ELSE client
    /\ mainpc' = IF mainpc \in {"poll", "glitch", "accept"} THEN "sleep" ELSE "stopping"
    /\ ProcessState
    /\ UNCHANGED <<configVars, exit_code, last_valid_total_wh, retained>>

\* Lines 45-50: SIGINT or SIGTERM, at any point of the main thread; the
\* handler runs in the main thread in place of what it interrupted and
\* stops the network thread when there is a client.
SignalHandler ==
    /\ mainpc \notin {"exited", "stopping"}
    /\ client' = IF client # "none" THEN "loop_stopped" ELSE client
    /\ mainpc' = "stopping"
    /\ ProcessState
    /\ UNCHANGED <<configVars, exit_code, last_valid_total_wh, retained>>

\* Lines 51-53: the handler disconnects the client when there is one and
\* raises SystemExit(0), which no except clause of the program catches.
SignalExit ==
    /\ mainpc = "stopping"
    /\ client' = IF client # "none" THEN "disconnected" ELSE client
    /\ mainpc' = "exited"
    /\ exit_code' = "0"
    /\ UNCHANGED <<configVars, last_valid_total_wh, brokerVars, cbVars, cycleVars,
                   logVars>>

\* ------------------------------------------------------------ specification

MainStep ==
    \/ PortMissing
    \/ DryRunStart
    \/ ConfigMissing
    \/ CreateClient
    \/ Connect
    \/ ConnectFails
    \/ Subscribe
    \/ RecoveryWait
    \/ Unsubscribe
    \/ PollFails
    \/ Poll
    \/ MemoryGlitch
    \/ MemoryAccept
    \/ Sleep
    \/ SignalExit

CallbackStep ==
    \/ OnMessageParseError
    \/ OnMessageIgnore
    \/ OnMessageCompare
    \/ OnMessageRestore

Next ==
    \/ MainStep
    \/ CallbackStep
    \/ ExternalPublish
    \/ SignalHandler

Spec == Init /\ [][Next]_vars

\* The main thread is always scheduled again; a signal may or may not come.
FairSpec == Spec /\ WF_vars(MainStep)

\* A restart: the process starts as in Init (line 40: last_valid_total_wh
\* = 0) while the broker holds what the previous run published last, retained
\* (line 197): a message with the total RestartTotal.
RestartInit ==
    /\ Init
    /\ retained = [kind |-> "val", total_production_wh |-> RestartTotal]

\* The steps of the main thread other than the unsubscribe.
MainStepButUnsubscribe ==
    \/ PortMissing
    \/ DryRunStart
    \/ ConfigMissing
    \/ CreateClient
    \/ Connect
    \/ ConnectFails
    \/ Subscribe
    \/ RecoveryWait
    \/ PollFails
    \/ Poll
    \/ MemoryGlitch
    \/ MemoryAccept
    \/ Sleep
    \/ SignalExit

\* The retained message reaches on_message within the 2 s of line 112: when
\* the main thread unsubscribes, on_message has been called for every
\* message sent to the client.
UnsubscribeAfterReceipt ==
    /\ inbox = <<>>
    /\ Unsubscribe

\* The same, and on_message has also returned.
UnsubscribeAfterReturn ==
    /\ inbox = <<>>
    /\ cbpc = "idle"
    /\ Unsubscribe

\* The restarts in which the retained message is received within the window.
RestartNext ==
    \/ MainStepButUnsubscribe
    \/ UnsubscribeAfterReceipt
    \/ CallbackStep
    \/ ExternalPublish
    \/ SignalHandler

RestartSpec == RestartInit /\ [][RestartNext]_vars

\* The restarts in which on_message is done with it within the window.
RestartHandledNext ==
    \/ MainStepButUnsubscribe
    \/ UnsubscribeAfterReturn
    \/ CallbackStep
    \/ ExternalPublish
    \/ SignalHandler

RestartHandledSpec == RestartInit /\ [][RestartHandledNext]_vars

\* ------------------------------------------------------------------ claims

\* The positions between subscribe and unsubscribe: the recovery window.
RecoveryPcs == {"wait", "unsubscribe"}

\* A step in which on_message takes the next message sent to the client.
TakesMessage ==
    /\ inbox # <<>>
    /\ inbox' = Tail(inbox)
    /\ mainpc' = mainpc

\* A step in which on_message runs line 81.
RestoresTotal ==
    /\ cbpc = "write"
    /\ cbpc' = "idle"
    /\ mainpc' = mainpc

\* C1: last_valid_total_wh is only ever set higher or left at the same
\* value, so its value after a cycle is never below its value after the
\* cycle before.
C1_NeverLowered ==
    [][last_valid_total_wh' >= last_valid_total_wh]_vars

\* With MQTT disabled there is no client and no callback thread, and the
\* poll loop alone never lowers last_valid_total_wh.
DryRunNeverLowered ==
    [][~ENABLE_MQTT => last_valid_total_wh' >= last_valid_total_wh]_vars

\* C2: a candidate strictly below last_valid_total_wh takes the glitch
\* branch, which leaves last_valid_total_wh as it is and publishes it; any
\* other candidate, an equal one included, takes the accept branch, which
\* stores the candidate.
C2_GlitchAbsorbed ==
    [][/\ (mainpc = "poll" /\ mainpc' \in {"glitch", "accept"}) =>
              (mainpc' = "glitch" <=> current_total_wh' < last_valid_total_wh)
       /\ (mainpc = "glitch" /\ mainpc' = "sleep") =>
              /\ last_valid_total_wh' = last_valid_total_wh
              /\ glitch'
              /\ published'.sent =>
                     published'.total_production_wh = last_valid_total_wh
       /\ (mainpc = "accept" /\ mainpc' = "sleep") =>
              /\ ~glitch'
              /\ last_valid_total_wh' = current_total_wh]_vars

\* A glitch cycle has published: the DTU reported 1, the payload carries
\* the unchanged last valid total 2.
C2_Witness ==
    /\ mainpc = "sleep"
    /\ glitch
    /\ published.sent
    /\ published.debug_source = "DTU"
    /\ published.total_production_wh = 2
    /\ last_valid_total_wh = 2
    /\ retained = [kind |-> "val", total_production_wh |-> 2]

\* C3: for every reading, a reported total above 0 is the candidate and the
\* source is DTU, whatever the inverters sum to; otherwise the candidate is
\* the sum of the inverters' total_production and the source is CALC.  A
\* candidate that is not below last_valid_total_wh becomes the new
\* last_valid_total_wh.  (The readings are taken with pv_power 0, which
\* lines 157-166 do not read.)
C3_TotalSelection ==
    /\ \A pd \in {q \in PlantSnapshots : q.pv_power = 0} :
          LET invs == pd.inverters
              sum[i \in 0..Len(invs)] ==
                  IF i = 0 THEN 0 ELSE sum[i - 1] + invs[i].total_production
              r == CycleLocals(pd)
          IN IF pd.total_production > 0
             THEN r.current_total_wh = pd.total_production /\ r.source = "DTU"
             ELSE r.current_total_wh = sum[Len(invs)] /\ r.source = "CALC"
    /\ [][/\ (mainpc = "poll" /\ mainpc' \in {"glitch", "accept"}) =>
                 /\ dtu_reported_total' > 0 =>
                        /\ current_total_wh' = dtu_reported_total'
                        /\ source' = "DTU"
                 /\ dtu_reported_total' = 0 => source' = "CALC"
                 /\ current_total_wh' >= last_valid_total_wh => mainpc' = "accept"
          /\ (mainpc = "accept" /\ mainpc' = "sleep") =>
                 last_valid_total_wh' = current_total_wh]_vars

\* The DTU reported 0, the inverters' sum 2 was the candidate, and it was
\* accepted and published.
C3_Witness ==
    /\ mainpc = "sleep"
    /\ ~glitch
    /\ published.sent
    /\ published.debug_source = "CALC"
    /\ published.total_production_wh = 2
    /\ last_valid_total_wh = 2

\* C4: in the recovery window on_message adopts a delivered total if and
\* only if it is strictly greater than last_valid_total_wh, and what it
\* then stores is that total.
C4_RecoveryAdoption ==
    [][/\ (mainpc \in RecoveryPcs /\ TakesMessage) =>
              LET m == Head(inbox)
              IN /\ last_valid_total_wh' = last_valid_total_wh
                 /\ cbpc' = "write" <=>
                        (m.kind = "val" /\ m.total_production_wh > last_valid_total_wh)
                 /\ cbpc' = "write" => saved_total' = m.total_production_wh
       /\ (mainpc \in RecoveryPcs /\ RestoresTotal) =>
              /\ last_valid_total_wh' = saved_total
              /\ last_valid_total_wh' > last_valid_total_wh
       /\ (mainpc \in RecoveryPcs /\ last_valid_total_wh' # last_valid_total_wh) =>
              RestoresTotal]_vars

\* In the recovery window the total 2 was adopted and a later message with
\* the total 1 was taken and left it at 2.
C4_Witness ==
    /\ mainpc \in RecoveryPcs
    /\ last_valid_total_wh = 2
    /\ retained = [kind |-> "val", total_production_wh |-> 1]
    /\ inbox = <<>>
    /\ cbpc = "idle"

\* C5: a start-up in which no message arrives, or the payload does not
\* parse, or its total is not greater, leaves last_valid_total_wh at its
\* value (0 on a cold start): until the first poll only the adoption of a
\* greater total changes it, nothing but a signal ends the process during
\* the recovery, and the main thread goes on to the first poll.
C5_SoftFailure ==
    /\ [][/\ TakesMessage =>
                 LET m == Head(inbox)
                 IN (m.kind # "val" \/ m.total_production_wh <= last_valid_total_wh) =>
                        /\ last_valid_total_wh' = last_valid_total_wh
                        /\ cbpc' = "idle"
                        /\ exit_code' = exit_code
          /\ (mainpc \in {"config", "connect", "subscribe"}) =>
                 last_valid_total_wh' = 0
          /\ (mainpc \in RecoveryPcs /\ last_valid_total_wh' # last_valid_total_wh) =>
                 (RestoresTotal /\ last_valid_total_wh' > last_valid_total_wh)
          /\ (mainpc \in {"subscribe", "wait", "unsubscribe"}) =>
                 /\ exit_code' = exit_code
                 /\ mainpc' \in {"subscribe", "wait", "unsubscribe", "poll", "stopping"}
          /\ exit_code' # exit_code => (mainpc = "stopping" \/ client # "looping")]_vars
    /\ (mainpc \in {"subscribe", "wait", "unsubscribe"}) ~>
           (mainpc = "poll" \/ exit_code = "0")

\* The first poll is reached with last_valid_total_wh still 0 after a
\* payload that does not parse was delivered and taken.
C5_Witness ==
    /\ mainpc = "poll"
    /\ client = "looping"
    /\ retained.kind = "bad"
    /\ inbox = <<>>
    /\ cbpc = "idle"
    /\ last_valid_total_wh = 0

\* C6: once the first poll cycle has started, last_valid_total_wh is
\* written by line 173 of the poll loop only, never by on_message.
C6_SingleWriter ==
    [][(mainpc \in LoopPcs /\ last_valid_total_wh' # last_valid_total_wh) =>
           (mainpc = "accept" /\ mainpc' = "sleep")]_vars

\* C7: a cycle that ends in a device-read failure leaves
\* last_valid_total_wh as it was and publishes nothing.
C7_CycleIsolation ==
    [][(error = "none" /\ error' = "read") =>
           /\ last_valid_total_wh' = last_valid_total_wh
           /\ ~published'.sent]_vars

\* C8: a payload published in a cycle carries the value last_valid_total_wh
\* has after the cycle's memory check, on the accept branch and on the
\* glitch branch.
C8_PublishedIsLastValid ==
    [][(mainpc \in {"glitch", "accept"} /\ published'.sent) =>
           /\ published'.total_production_wh = last_valid_total_wh'
           /\ retained'.total_production_wh = last_valid_total_wh'
           /\ mainpc = "accept" => published'.total_production_wh = current_total_wh
           /\ mainpc = "glitch" => published'.total_production_wh = last_valid_total_wh]_vars

\* A glitch cycle has published a total above the one the DTU reported.
C8_Witness ==
    /\ mainpc = "sleep"
    /\ published.sent
    /\ glitch
    /\ published.total_production_wh = last_valid_total_wh
    /\ published.total_production_wh > 0

\* C9: the published current_power_w is the sum of the inverters' pv_power
\* when the DTU reports 0 and that sum is above 0, and the DTU's power in
\* every other case.  (The readings are taken with total_production 0,
\* which lines 176-182 do not read.)
C9_PowerSelection ==
    /\ \A pd \in {q \in PlantSnapshots : q.total_production = 0} :
          LET invs == pd.inverters
              sum[i \in 0..Len(invs)] ==
                  IF i = 0 THEN 0 ELSE sum[i - 1] + invs[i].pv_power
          IN CycleLocals(pd).final_power =
                 IF pd.pv_power = 0 /\ sum[Len(invs)] > 0
                 THEN sum[Len(invs)] ELSE pd.pv_power
    /\ [][(mainpc \in {"glitch", "accept"} /\ published'.sent) =>
              published'.current_power_w = final_power]_vars

\* The DTU reported 0 W and the payload carries the sum 2 of two inverters.
C9_Witness ==
    /\ published.sent
    /\ published.current_power_w = 2

\* C10: an error raised in a cycle is caught and the loop goes to its
\* sleep; the loop is left by a signal only; from every position of the
\* loop the next poll begins, unless a signal ends the process.
C10_LoopNeverDies ==
    /\ [][/\ (error = "none" /\ error' # "none") => mainpc' = "sleep"
          /\ (mainpc \in LoopPcs) =>
                 /\ exit_code' = exit_code
                 /\ mainpc' \in LoopPcs \cup {"stopping"}
          /\ (mainpc = "stopping") => exit_code' \in {exit_code, "0"}
          /\ (mainpc = "sleep" /\ mainpc' # "sleep") =>
                 mainpc' \in {"poll", "stopping"}]_vars
    /\ (mainpc \in LoopPcs) ~> (mainpc = "poll" \/ exit_code = "0")
    /\ (mainpc = "sleep" /\ error # "none") ~> (mainpc = "poll" \/ exit_code = "0")

\* A publish has failed, the error was caught, and the loop is in its sleep
\* with the step to the next poll enabled.
C10_Witness ==
    /\ mainpc = "sleep"
    /\ error = "publish"
    /\ ENABLED Sleep

\* C11: a termination signal is handled in every phase of a running
\* process; the handler stops the client's loop, then disconnects the
\* client (when there is one), and the process exits with status 0; after
\* the signal nothing is polled or published, and the except clause of the
\* loop does not take the exit for an error of the cycle.
C11_GracefulShutdown ==
    /\ [](mainpc \notin {"exited", "stopping"} => ENABLED SignalHandler)
    /\ [][/\ (client' = "loop_stopped") =>
                 /\ client \in {"created", "looping"}
                 /\ mainpc' = "stopping"
                 /\ exit_code' = exit_code
          /\ (mainpc # "stopping" /\ mainpc' = "stopping") =>
                 /\ client' = IF client = "none" THEN "none" ELSE "loop_stopped"
                 /\ ~published'.sent
                 /\ error' = "none"
                 /\ retained' = retained
          /\ (mainpc = "stopping") =>
                 /\ mainpc' = "exited"
                 /\ exit_code' = "0"
                 /\ client' = IF client = "none" THEN "none" ELSE "disconnected"
                 /\ published' = published
                 /\ retained' = retained
          /\ (client' = "disconnected") => client = "loop_stopped"
          /\ (mainpc = "exited") => FALSE]_vars
    /\ (mainpc = "stopping") ~> (mainpc = "exited" /\ exit_code = "0")

\* A process that had a client and had stored a total has exited with
\* status 0, its client stopped and disconnected.
C11_Witness ==
    /\ mainpc = "exited"
    /\ exit_code = "0"
    /\ client = "disconnected"
    /\ last_valid_total_wh = 2

\* MQTT is enabled and one of the four settings of line 90 is missing.
MissingSetting ==
    ENABLE_MQTT /\ ~(MQTT_BROKER /\ MQTT_USER /\ MQTT_PASS /\ TOPIC_BASE)

\* C12: with MQTT enabled and the broker address, the user name, the
\* password or the base topic missing, no client is created, nothing is
\* subscribed, polled or published, the loop is never reached, and the
\* process exits with a status other than 0 (unless a signal ends it before
\* the check).
C12_FatalConfiguration ==
    /\ [](MissingSetting =>
            /\ mainpc \in {"config", "stopping", "exited"}
            /\ client = "none"
            /\ ~subscribed
            /\ inbox = <<>>
            /\ ~published.sent
            /\ last_valid_total_wh = 0)
    /\ [][(MissingSetting /\ mainpc = "config" /\ mainpc' = "exited") =>
              exit_code' = "1"]_vars
    /\ (MissingSetting /\ mainpc = "config") ~> (exit_code \in {"0", "1"})

\* The base topic alone is missing and the process has exited with status 1
\* and without a client.
C12_Witness ==
    /\ ENABLE_MQTT /\ MQTT_PORT /\ MQTT_BROKER /\ MQTT_USER /\ MQTT_PASS
    /\ ~TOPIC_BASE
    /\ mainpc = "exited"
    /\ exit_code = "1"
    /\ client = "none"

\* The lists lines 133-143 give for the readings of the model.
AlarmLists == {ActiveAlarms(invs) : invs \in InverterLists}

\* C13: active_alarms holds one record (serial number, port, alarm code,
\* operating status) for each inverter of the reading whose alarm code is
\* above 0, in the order of the reading, and none for an inverter whose
\* alarm code is 0 or absent; the payload carries that list.
C13_AlarmExtraction ==
    /\ \A invs \in InverterLists :
          LET alarms == ActiveAlarms(invs)
              raised == {i \in 1..Len(invs) : invs[i].has_alarm_code /\ invs[i].alarm_code # 0}
              nth(k) == CHOOSE i \in raised :
                            Cardinality({j \in raised : j <= i}) = k
          IN /\ Len(alarms) = Cardinality(raised)
             /\ \A k \in 1..Len(alarms) :
                   alarms[k] = [serial_number |-> invs[nth(k)].serial_number,
                                port |-> invs[nth(k)].port_number,
                                alarm_code |-> invs[nth(k)].alarm_code,
                                operating_status |-> invs[nth(k)].operating_status]
    /\ \A invs \in InverterLists :
          CycleLocals([total_production |-> 0, pv_power |-> 0, alarm_flag |-> TRUE,
                       inverters |-> invs]).active_alarms = ActiveAlarms(invs)
    /\ [][/\ (mainpc = "poll" /\ mainpc' \in {"glitch", "accept"}) =>
                 active_alarms' \in AlarmLists
          /\ (mainpc \in {"glitch", "accept"} /\ published'.sent) =>
                 published'.active_alarms = active_alarms]_vars

\* The second of two inverters has an alarm, the first has none: the
\* published list holds the one record of the second.
C13_Witness ==
    /\ published.sent
    /\ Len(published.active_alarms) = 1
    /\ published.active_alarms[1].port = 2
    /\ published.active_alarms[1].alarm_code = 1

\* What a process with MQTT disabled does once it runs: no client, no
\* subscription, no message taken or published, a first poll with
\* last_valid_total_wh = 0, and the memory check of lines 169-173 in every
\* cycle.
DryRunIsLogOnly ==
    /\ [](~ENABLE_MQTT =>
            /\ client = "none"
            /\ ~subscribed
            /\ inbox = <<>>
            /\ cbpc = "idle"
            /\ ~published.sent)
    /\ [][~ENABLE_MQTT =>
             /\ retained' = retained
             /\ (mainpc = "config" /\ mainpc' = "poll") => last_valid_total_wh = 0
             /\ (mainpc = "glitch" /\ mainpc' = "sleep") =>
                    /\ current_total_wh < last_valid_total_wh
                    /\ last_valid_total_wh' = last_valid_total_wh
             /\ (mainpc = "accept" /\ mainpc' = "sleep") =>
                    /\ current_total_wh >= last_valid_total_wh
                    /\ last_valid_total_wh' = current_total_wh]_vars

\* C14: with MQTT disabled the process makes no connection and no recovery,
\* starts its first cycle with last_valid_total_wh = 0, runs every cycle
\* without publishing and applies the memory check all the same; it does
\* not end unless a signal ends it.
C14_PublishingDisabled ==
    /\ DryRunIsLogOnly
    /\ [](~ENABLE_MQTT => exit_code \in {"none", "0"})
    /\ (~ENABLE_MQTT /\ mainpc = "config") ~> (mainpc = "poll" \/ exit_code = "0")

\* C15, as the specification states it: in a glitch cycle in which the DTU
\* reported 0 (so that the candidate was the inverters' sum), the payload's
\* debug_source is not CALC.
C15_GlitchSourceNotCalc ==
    [][(mainpc = "glitch" /\ dtu_reported_total = 0 /\ published'.sent) =>
           published'.debug_source # "CALC"]_vars

\* C15, as the code has it: the glitch branch replaces the total only; the
\* payload's debug_source is the source the selection of lines 161-166
\* chose, CALC when the DTU reported 0 and DTU otherwise, also in a glitch
\* cycle, where the total comes from last_valid_total_wh.
C15_GlitchKeepsSource ==
    [][(mainpc = "glitch" /\ published'.sent) =>
           /\ published'.debug_source = source
           /\ published'.debug_source = IF dtu_reported_total = 0 THEN "CALC" ELSE "DTU"
           /\ published'.total_production_wh = last_valid_total_wh]_vars

\* A glitch cycle has published the stored total 2 with debug_source CALC.
C15_Witness ==
    /\ mainpc = "sleep"
    /\ glitch
    /\ published.sent
    /\ published.debug_source = "CALC"
    /\ published.total_production_wh = 2
    /\ last_valid_total_wh = 2

\* C16: when the publish of a cycle raises, the error is caught and the
\* loop goes to its sleep; last_valid_total_wh has the value the memory
\* check gave it in that cycle (the candidate on the accept branch, the
\* stored total on the glitch branch), nothing is published or retained, the
\* main thread leaves the value alone until the next poll, and the next
\* poll compares its candidate with the value then stored.
C16_PublishFailureKeepsState ==
    [][/\ (error = "none" /\ error' = "publish") =>
              /\ mainpc \in {"glitch", "accept"}
              /\ mainpc' = "sleep"
              /\ exit_code' = exit_code
              /\ ~published'.sent
              /\ retained' = retained
              /\ last_valid_total_wh' = IF mainpc = "accept" THEN current_total_wh
                                        ELSE last_valid_total_wh
       /\ (error = "publish" /\ mainpc = "sleep" /\ mainpc' = "poll") =>
              last_valid_total_wh' = last_valid_total_wh
       /\ (mainpc = "poll" /\ mainpc' \in {"glitch", "accept"}) =>
              (mainpc' = "glitch" <=> current_total_wh' < last_valid_total_wh)]_vars

\* A cycle accepted the total 2 on top of a retained message that does not
\* parse, and its publish raised: 2 is stored, the broker still holds the
\* old message.
C16_Witness ==
    /\ mainpc = "sleep"
    /\ error = "publish"
    /\ ~glitch
    /\ last_valid_total_wh = 2
    /\ retained.kind = "bad"
    /\ cbpc = "idle"
    /\ inbox = <<>>

\* C17: the recovery changes last_valid_total_wh at most once per start,
\* however many messages arrive on the state topic before the unsubscribe.
\* The value is 0 before the recovery and an adopted total is above the
\* value it replaces, so a change in the window that starts from a value
\* other than 0 is a second change.
C17_RecoveryAtMostOnce ==
    [][(mainpc \in RecoveryPcs /\ last_valid_total_wh' # last_valid_total_wh) =>
           last_valid_total_wh = 0]_vars

\* C18: neither write of last_valid_total_wh lowers it, however the
\* compare-then-assign of on_message (lines 79-81) and the one of the poll
\* loop (lines 169-173) interleave: not the assignment of line 81, and not
\* the assignment of line 173.
C18_NoWriteLowers ==
    [][/\ RestoresTotal => last_valid_total_wh' >= last_valid_total_wh
       /\ (mainpc = "accept" /\ mainpc' = "sleep") =>
              last_valid_total_wh' >= last_valid_total_wh]_vars

\* C19: every publish is retained with the total last_valid_total_wh has
\* in memory, and a process restarted on top of the retained total
\* RestartTotal, which is sent to it when it subscribes, publishes no total
\* below RestartTotal, whatever the DTU reports.
C19_NoRegressAcrossRestart ==
    [][published'.sent =>
           /\ retained' = [kind |-> "val",
                           total_production_wh |-> last_valid_total_wh']
           /\ published'.total_production_wh = last_valid_total_wh'
           /\ published'.total_production_wh >= RestartTotal]_vars

====
